---- MODULE Spec2Model ----
(***************************************************************************)
(* Model of lambda_function.py: the multipart decoder (parse_multipart),   *)
(* the transcode step (convert_audio_to_wav) and the request handler       *)
(* (lambda_handler), over a shared /tmp filesystem.                        *)
(*                                                                         *)
(* Byte strings and text are sequences of tokens.  A token is one byte     *)
(* ("-", "\r", "\n", "/", ...) or an indivisible block of bytes that holds *)
(* none of the bytes the code looks at one by one ("hello", "name=").      *)
(***************************************************************************)
EXTENDS Integers, Sequences, FiniteSets, TLC

\* ------------------------------------------------------------------ bounds

\* The wall clock takes the values 0..MaxClock (seconds).
MaxClock == 1

\* tempfile draws the name of a new temporary file from NumTmpNames names.
NumTmpNames == 2

\* Invocations that may share one execution environment.
NumInv == 2

\* ------------------------------------------------------------------ bytes

CR == "\r"
LF == "\n"
Q == "\""
DASH == "-"
SP == " "
CRLF == <<CR, LF>>

\* d occurs in s at position p.
IsAt(s, d, p) ==
  /\ p >= 1
  /\ p + Len(d) - 1 <= Len(s)
  /\ \A k \in 1..Len(d) : s[p + k - 1] = d[k]

\* Python's `d in s`.
Contains(s, d) == \E p \in 1..(Len(s) + 1) : IsAt(s, d, p)

\* Python's s.find(d) + 1: the first position of d in s, 0 when there is none.
Find(s, d) ==
  IF Contains(s, d)
  THEN CHOOSE p \in 1..(Len(s) + 1) :
         IsAt(s, d, p) /\ \A r \in 1..(p - 1) : ~IsAt(s, d, r)
  ELSE 0

\* Python's s.split(d): the pieces between the non-overlapping occurrences
\* of d, found left to right.
RECURSIVE split(_, _)
split(s, d) ==
  LET p == Find(s, d)
  IN  IF p = 0
      THEN <<s>>
      ELSE <<SubSeq(s, 1, p - 1)>> \o split(SubSeq(s, p + Len(d), Len(s)), d)

\* Python's s.rstrip(chars): trailing bytes that are in chars are removed.
RECURSIVE rstrip(_, _)
rstrip(s, chars) ==
  IF s # <<>> /\ s[Len(s)] \in chars
  THEN rstrip(SubSeq(s, 1, Len(s) - 1), chars)
  ELSE s

RECURSIVE lstrip(_, _)
lstrip(s, chars) ==
  IF s # <<>> /\ s[1] \in chars
  THEN lstrip(Tail(s), chars)
  ELSE s

\* str.strip() with no argument strips whitespace on both sides.
Whitespace == {SP, CR, LF, "\t"}
strip(s) == lstrip(rstrip(s, Whitespace), Whitespace)

\* bytes.decode('utf-8', errors='ignore'): bytes that are no UTF-8 are dropped.
BAD == "\\xff"
decode(s) == SelectSeq(s, LAMBDA c : c # BAD)

\* A dict as a function on its keys.
EmptyDict == [k \in {} |-> <<>>]
DictSet(d, k, v) == [x \in (DOMAIN d) \cup {k} |-> IF x = k THEN v ELSE d[x]]
DictGet(d, k, default) == IF k \in DOMAIN d THEN d[k] ELSE default

\* ------------------------------------------------------- parse_multipart

ContentDisposition == "Content-Disposition"
NAME_EQ == "name="
FILE == "file"

\* The positions where r'name="([^"]+)"' matches: name=" then one or more
\* bytes that are not a quote, then a quote.
NameMatchAt(h, p) ==
  /\ IsAt(h, <<NAME_EQ, Q>>, p)
  /\ \E q \in (p + 3)..Len(h) :
       /\ h[q] = Q
       /\ \A r \in (p + 2)..(q - 1) : h[r] # Q

\* re.search(r'name="([^"]+)"', h).group(1); <<>> stands for no match (the
\* group of a match is never empty).
name_match(h) ==
  IF \E p \in 1..Len(h) : NameMatchAt(h, p)
  THEN LET p == CHOOSE x \in 1..Len(h) :
                  NameMatchAt(h, x) /\ \A r \in 1..(x - 1) : ~NameMatchAt(h, r)
           q == CHOOSE x \in (p + 3)..Len(h) :
                  h[x] = Q /\ \A r \in (p + 2)..(x - 1) : h[r] # Q
       IN  SubSeq(h, p + 2, q - 1)
  ELSE <<>>

\* The bytes content.rstrip(b'\r\n--') removes from the right end.
TrailingMarkerBytes == {CR, LF, DASH}

\* One pass of the loop over parts: acc = [form_data, files] before the part,
\* the result is acc after it.
ParsePart(acc, part) ==
  IF ~Contains(part, <<ContentDisposition>>) THEN acc
  ELSE IF ~Contains(part, CRLF \o CRLF) THEN acc
  ELSE
    LET p == Find(part, CRLF \o CRLF)
        headers == SubSeq(part, 1, p - 1)
        content == SubSeq(part, p + 4, Len(part))
        headers_str == decode(headers)
        field_name == name_match(headers_str)
    IN  IF field_name = <<>> THEN acc
        ELSE IF Contains(headers_str, <<FILE, NAME_EQ>>)
        THEN [acc EXCEPT !.files =
                DictSet(@, field_name,
                        [content |-> rstrip(content, TrailingMarkerBytes),
                         headers |-> headers_str])]
        ELSE [acc EXCEPT !.form_data =
                DictSet(@, field_name,
                        decode(rstrip(content, TrailingMarkerBytes)))]

RECURSIVE ParseParts(_, _)
ParseParts(acc, parts) ==
  IF parts = <<>> THEN acc
  ELSE ParseParts(ParsePart(acc, Head(parts)), Tail(parts))

\* parse_multipart(body, boundary) = [form_data, files].
parse_multipart(body, boundary) ==
  ParseParts([form_data |-> EmptyDict, files |-> EmptyDict],
             split(body, <<DASH, DASH>> \o boundary))

\* ------------------------------------------------- the client's request

\* What a client puts on the wire: a list of parts.  kind is "field" (a text
\* field), "file" (an attachment), or a malformed part: "noname" (a header
\* block with no name and no filename), "fnonly" (a filename attribute and no
\* name attribute), "nosep" (no blank line between headers and content).
FormData == ": form-data"
SEMI == ";"

PartHeader(p) ==
  CASE p.kind = "field" ->
         <<ContentDisposition, FormData, SEMI, SP, NAME_EQ, Q>> \o p.name \o <<Q>>
    [] p.kind = "nosep" ->
         <<ContentDisposition, FormData, SEMI, SP, NAME_EQ, Q>> \o p.name \o <<Q>>
    [] p.kind = "file" ->
         <<ContentDisposition, FormData, SEMI, SP, NAME_EQ, Q>> \o p.name
           \o <<Q, SEMI, SP, FILE, NAME_EQ, Q, "rec.m4a", Q>>
           \o CRLF \o <<"Content-Type: audio/mp4">>
    [] p.kind = "fnonly" ->
         <<ContentDisposition, FormData, SEMI, SP, FILE, NAME_EQ, Q>> \o p.name
           \o <<Q>> \o CRLF \o <<"Content-Type: audio/mp4">>
    [] p.kind = "noname" ->
         <<ContentDisposition, FormData>>

\* The bytes of one part, as they stand between two boundary lines.
EncodePart(p) ==
  CRLF \o PartHeader(p)
       \o (IF p.kind = "nosep" THEN CRLF ELSE CRLF \o CRLF)
       \o p.value \o CRLF

RECURSIVE EncodeParts(_, _)
EncodeParts(parts, boundary) ==
  IF parts = <<>> THEN <<>>
  ELSE <<DASH, DASH>> \o boundary \o EncodePart(Head(parts))
         \o EncodeParts(Tail(parts), boundary)

\* The multipart body of RFC 7578: every part after a boundary line, and the
\* closing boundary line --boundary-- at the end.
EncodeBody(parts, boundary) ==
  EncodeParts(parts, boundary) \o <<DASH, DASH>> \o boundary \o <<DASH, DASH>> \o CRLF

Boundary == <<"XyZ">>

WellFormedKinds == {"field", "file"}
Valid(parts) == SelectSeq(parts, LAMBDA p : p.kind \in WellFormedKinds)

\* An optional part: <<>> (absent) or <<part>>.
OptField(name, vals) ==
  {<<>>} \cup {<<[kind |-> "field", name |-> <<name>>, value |-> v]>> : v \in vals}

TextValues == {<<"hello", SP, "world">>, <<"a", ":", "b">>, <<"/">>, <<>>}
DialectValues == {<<"Min">>, <<"Wu", "/">>, <<"/", "*">>, <<SP>>}
UserValues == {<<"u1">>, <<>>}
TranslitValues == {<<"ni", "|", "hao">>, <<"*">>}
Payloads == {<<"x", "y">>, <<"x", DASH>>, <<"x", CR, LF>>, <<>>}
OptFile ==
  {<<>>} \cup {<<[kind |-> "file", name |-> <<FILE>>, value |-> v]>> : v \in Payloads}
OptMalformed ==
  {<<>>,
   <<[kind |-> "noname", name |-> <<>>, value |-> <<"junk">>]>>,
   <<[kind |-> "nosep", name |-> <<"text">>, value |-> <<"other">>]>>,
   <<[kind |-> "fnonly", name |-> <<FILE>>, value |-> <<"z">>]>>}

\* The requests of the single-invocation specification.
PartLists ==
  {t \o d \o u \o tr \o f \o m :
     t \in OptField("text", TextValues),
     d \in OptField("dialect", DialectValues),
     u \in OptField("user_id", UserValues),
     tr \in OptField("transliteration", TranslitValues),
     f \in OptFile,
     m \in OptMalformed}

MULTIPART == "multipart/form-data"
BOUNDARY_EQ == "boundary="
CT_Multipart == <<MULTIPART, SEMI, SP, BOUNDARY_EQ>> \o Boundary
CT_Quoted == <<MULTIPART, SEMI, SP, BOUNDARY_EQ, Q>> \o Boundary \o <<Q>>
CT_NoBoundary == <<MULTIPART>>
CT_Json == <<"application/json">>

SmallPartLists ==
  {t \o d \o u \o f :
     t \in {<<[kind |-> "field", name |-> <<"text">>, value |-> <<"hello">>]>>},
     d \in {<<[kind |-> "field", name |-> <<"dialect">>, value |-> <<"Min">>]>>},
     u \in {<<[kind |-> "field", name |-> <<"user_id">>, value |-> <<"u1">>]>>},
     f \in {<<[kind |-> "file", name |-> <<FILE>>, value |-> v]>> :
              v \in {<<"x", "y">>, <<"p", "q">>}}}

\* Bodies that carry a second attachment under the same field name.
TwoFileLists ==
  {qs \o <<[kind |-> "file", name |-> <<FILE>>, value |-> <<"z", "w">>]>> :
     qs \in SmallPartLists}

Requests ==
  {[content_type |-> CT_Multipart, parts |-> ps] : ps \in PartLists \cup TwoFileLists}
    \cup {[content_type |-> ct, parts |-> ps] :
            ct \in {CT_Quoted, CT_NoBoundary, CT_Json, <<>>}, ps \in SmallPartLists}

\* The requests of the specification with fairness: complete ones, ones that
\* lack a field or the attachment, and ones with another content type.
LiveRequests ==
  {[content_type |-> CT_Multipart, parts |-> ps] :
     ps \in SmallPartLists \cup {SubSeq(qs, 1, n) : qs \in SmallPartLists, n \in 0..3}}
    \cup {[content_type |-> ct, parts |-> ps] :
            ct \in {CT_Quoted, CT_NoBoundary, CT_Json}, ps \in SmallPartLists}

\* The requests of the specification with concurrent invocations.
ConcRequests ==
  {[content_type |-> CT_Multipart, parts |-> ps] : ps \in SmallPartLists}

\* ------------------------------------------------------------------ state

Invocations == 1..NumInv

VARIABLES
  pc,        \* pc[i]: where invocation i stands in lambda_handler
  event,     \* event[i]: the content type header and the decoded body bytes
  sent,      \* sent[i]: the parts the client encoded into event[i].body
  parsed,    \* parsed[i]: form_data and files, the result of parse_multipart
  locals,    \* locals[i]: the local variables of the handler and the transcode step
  proc,      \* proc[i]: the external transcode process of invocation i
  puts,      \* puts[i]: the calls of s3_client.put_object, in order
  response,  \* response[i]: what lambda_handler returned
  fs,        \* the files under /tmp: path -> content
  now,       \* the wall clock, in seconds
  opt        \* the candidate executable paths that exist under /opt

vars == <<pc, event, sent, parsed, locals, proc, puts, response, fs, now, opt>>

BUCKET == "bucket"

ffmpeg_paths == <<"/opt/bin/ffmpeg", "/opt/ffmpeg-layer/bin/ffmpeg", "/opt/ffmpeg">>

NoLocals ==
  [boundary |-> <<>>, text |-> <<>>, dialect |-> <<>>, user_id |-> <<>>,
   transliteration |-> <<>>, audio_data |-> <<>>, base_name |-> <<>>,
   wav_temp_path |-> <<>>, temp_input_path |-> <<>>, ffmpeg_path |-> "",
   returncode |-> 0, conversion_successful |-> FALSE, wav_data |-> <<>>,
   s3_key |-> <<>>, final_filename |-> <<>>, final_size |-> 0,
   conversion_status |-> ""]

NoResponse ==
  [statusCode |-> 0, status |-> "", message |-> <<>>, s3_url |-> <<>>,
   filename |-> <<>>, size_bytes |-> 0, conversion |-> ""]

Init ==
  /\ pc = [i \in Invocations |-> "idle"]
  /\ event = [i \in Invocations |-> [content_type |-> <<>>, body |-> <<>>]]
  /\ sent = [i \in Invocations |-> <<>>]
  /\ parsed = [i \in Invocations |-> [form_data |-> EmptyDict, files |-> EmptyDict]]
  /\ locals = [i \in Invocations |-> NoLocals]
  /\ proc = [i \in Invocations |-> "none"]
  /\ puts = [i \in Invocations |-> <<>>]
  /\ response = [i \in Invocations |-> NoResponse]
  /\ fs = EmptyDict
  /\ now = 0
  /\ opt \in {{}, {ffmpeg_paths[2], ffmpeg_paths[3]}}

\* ------------------------------------------------------------ the handler

ErrorResponse(code, msg) ==
  [NoResponse EXCEPT !.statusCode = code, !.status = "error", !.message = msg]

\* An except clause that drops the cause from the message.
InternalErrorMutant(cause) == ErrorResponse(500, <<"Internal server error">>)

\* The except clause of lambda_handler (lines 308-324): str(e) is in the message.
InternalError(cause) == ErrorResponse(500, <<"Internal server error: ", cause>>)

\* The gateway hands the request to lambda_handler.
Invoke(i, requests) ==
  /\ pc[i] = "idle"
  /\ \E r \in requests :
       /\ event' = [event EXCEPT ![i] =
                      [content_type |-> r.content_type,
                       body |-> EncodeBody(r.parts, Boundary)]]
       /\ sent' = [sent EXCEPT ![i] = r.parts]
  /\ pc' = [pc EXCEPT ![i] = "h_content_type"]
  /\ UNCHANGED <<parsed, locals, proc, puts, response, fs, now, opt>>

\* re.search(r'boundary=([^;]+)', content_type).group(1); <<>> for no match.
boundary_match(ct) ==
  LET p == Find(ct, <<BOUNDARY_EQ>>)
  IN  IF p = 0 THEN <<>>
      ELSE LET rest == SubSeq(ct, p + 1, Len(ct))
               q == Find(rest, <<SEMI>>)
           IN  IF q = 0 THEN rest ELSE SubSeq(rest, 1, q - 1)

\* Lines 134-165: the content type and its boundary.
HContentType(i) ==
  /\ pc[i] = "h_content_type"
  /\ LET content_type == event[i].content_type
     IN  IF ~Contains(content_type, <<MULTIPART>>)
         THEN /\ response' = [response EXCEPT ![i] =
                    ErrorResponse(400, <<"Expected multipart/form-data, got: ">>
                                         \o content_type)]
              /\ pc' = [pc EXCEPT ![i] = "done"]
              /\ UNCHANGED locals
         ELSE IF boundary_match(content_type) = <<>>
         THEN /\ response' = [response EXCEPT ![i] =
                    ErrorResponse(400, <<"No boundary found in Content-Type">>)]
              /\ pc' = [pc EXCEPT ![i] = "done"]
              /\ UNCHANGED locals
         ELSE /\ locals' = [locals EXCEPT ![i].boundary =
                    lstrip(rstrip(boundary_match(content_type), {Q}), {Q})]
              /\ pc' = [pc EXCEPT ![i] = "h_parse"]
              /\ UNCHANGED response
  /\ UNCHANGED <<event, sent, parsed, proc, puts, fs, now, opt>>

\* Line 177: form_data, files = parse_multipart(body, boundary).
HParse(i) ==
  /\ pc[i] = "h_parse"
  /\ parsed' = [parsed EXCEPT ![i] = parse_multipart(event[i].body, locals[i].boundary)]
  /\ pc' = [pc EXCEPT ![i] = "h_validate"]
  /\ UNCHANGED <<event, sent, locals, proc, puts, response, fs, now, opt>>

\* form_data.get(name, '').strip()
FieldOf(form_data, name) == strip(DictGet(form_data, <<name>>, <<>>))

\* A validation that forgets user_id.
MissingRequiredMutant(text, dialect, user_id) ==
  text = <<>> \/ dialect = <<>>

\* Line 188: not all([text, dialect, user_id]).
MissingRequired(text, dialect, user_id) ==
  text = <<>> \/ dialect = <<>> \/ user_id = <<>>

\* Lines 183-216: the required fields and the attachment.
HValidate(i) ==
  /\ pc[i] = "h_validate"
  /\ LET form_data == parsed[i].form_data
         files == parsed[i].files
         text == FieldOf(form_data, "text")
         dialect == FieldOf(form_data, "dialect")
         user_id == FieldOf(form_data, "user_id")
         transliteration == FieldOf(form_data, "transliteration")
     IN  IF MissingRequired(text, dialect, user_id)
         THEN /\ response' = [response EXCEPT ![i] =
                    ErrorResponse(400, <<"Missing required fields: text, dialect, user_id">>)]
              /\ pc' = [pc EXCEPT ![i] = "done"]
              /\ locals' = [locals EXCEPT ![i].text = text, ![i].dialect = dialect,
                              ![i].user_id = user_id,
                              ![i].transliteration = transliteration]
         ELSE IF <<FILE>> \notin DOMAIN files
         THEN /\ response' = [response EXCEPT ![i] =
                    ErrorResponse(400, <<"No audio file uploaded">>)]
              /\ pc' = [pc EXCEPT ![i] = "done"]
              /\ locals' = [locals EXCEPT ![i].text = text, ![i].dialect = dialect,
                              ![i].user_id = user_id,
                              ![i].transliteration = transliteration]
         ELSE /\ locals' = [locals EXCEPT ![i].text = text, ![i].dialect = dialect,
                              ![i].user_id = user_id,
                              ![i].transliteration = transliteration,
                              ![i].audio_data = files[<<FILE>>].content]
              /\ pc' = [pc EXCEPT ![i] = "h_name"]
              /\ UNCHANGED response
  /\ UNCHANGED <<event, sent, parsed, proc, puts, fs, now, opt>>

\* ----------------------------------------------------------- the base name

Reserved == {"<", ">", ":", Q, "/", "\\", "|", "*"}

\* re.sub(r'[<>:"/\\|*]', "", s)
re_sub(s) == SelectSeq(s, LAMBDA c : c \notin Reserved)

\* The three characters of the placeholder for an empty preview (line 220).
Untitled == "U+672A U+547D U+540D"

\* Lines 219-221.
SafePreview(text) ==
  LET preview == IF re_sub(text) # <<>> THEN re_sub(text) ELSE <<Untitled>>
  IN  strip(SelectSeq(preview, LAMBDA c : c # SP))

\* Line 223.
SafeDialect(dialect) == IF dialect # <<>> THEN re_sub(dialect) ELSE <<"unknown">>

\* Lines 225-227.
SafeTransliteration(transliteration) ==
  IF transliteration # <<>> THEN re_sub(transliteration) ELSE <<>>

\* Lines 230-232: the UTC+8 time as %Y%m%d-%H%M%S; the clock's second t is
\* the last digit.
strftime(t) == <<"20250101-08000", ToString(t)>>

\* A base name that appends the suffix without looking at it.
BaseNameMutant(timestamp, safe_dialect, safe_preview, safe_transliteration) ==
  timestamp \o <<DASH>> \o safe_dialect \o <<DASH>> \o safe_preview
    \o <<DASH, DASH>> \o safe_transliteration

\* Lines 235-238.
BaseName(timestamp, safe_dialect, safe_preview, safe_transliteration) ==
  IF safe_transliteration # <<>>
  THEN timestamp \o <<DASH>> \o safe_dialect \o <<DASH>> \o safe_preview
         \o <<DASH, DASH>> \o safe_transliteration
  ELSE timestamp \o <<DASH>> \o safe_dialect \o <<DASH>> \o safe_preview

\* Line 241.
WavFilename(base_name) == base_name \o <<".wav">>

\* Line 242.
WavTempPath(base_name) == <<"/tmp/">> \o WavFilename(base_name)

\* Lines 218-242: the base name and the path of the transcode output.
HName(i) ==
  /\ pc[i] = "h_name"
  /\ LET base_name == BaseName(strftime(now), SafeDialect(locals[i].dialect),
                               SafePreview(locals[i].text),
                               SafeTransliteration(locals[i].transliteration))
     IN  locals' = [locals EXCEPT ![i].base_name = base_name,
                                  ![i].wav_temp_path = WavTempPath(base_name)]
  /\ pc' = [pc EXCEPT ![i] = "c_tmp"]
  /\ UNCHANGED <<event, sent, parsed, proc, puts, response, fs, now, opt>>

\* The clock advances.  Only line 231 reads it, so a tick is taken when some
\* invocation is about to read it.
Tick ==
  /\ now < MaxClock
  /\ \E i \in Invocations : pc[i] = "h_name"
  /\ now' = now + 1
  /\ UNCHANGED <<pc, event, sent, parsed, locals, proc, puts, response, fs, opt>>

\* ------------------------------------------------- convert_audio_to_wav

\* The names tempfile.NamedTemporaryFile(suffix='.audio') can give a file.
TmpPath(k) == <<"/tmp/tmp", ToString(k), ".audio">>

DictRemove(d, k) == [x \in (DOMAIN d) \ {k} |-> d[x]]

\* An except clause that returns True.
ConvReturnMutant(l, ok) == [l EXCEPT !.conversion_successful = TRUE]

\* convert_audio_to_wav returns ok to line 245.
ConvReturn(l, ok) == [l EXCEPT !.conversion_successful = ok]

\* Lines 61-63: the input is written to a new temporary file, whose name
\* tempfile picks among the names no file has.
ConvCreateTemp(i) ==
  /\ pc[i] = "c_tmp"
  /\ \E k \in 1..NumTmpNames :
       /\ TmpPath(k) \notin DOMAIN fs
       /\ fs' = DictSet(fs, TmpPath(k), locals[i].audio_data)
       /\ locals' = [locals EXCEPT ![i].temp_input_path = TmpPath(k)]
  /\ pc' = [pc EXCEPT ![i] = "c_locate"]
  /\ UNCHANGED <<event, sent, parsed, proc, puts, response, now, opt>>

\* Lines 75-79: the first candidate path that exists, "" when none does.
FirstExisting(paths, existing) ==
  IF \E k \in 1..Len(paths) : paths[k] \in existing
  THEN paths[CHOOSE k \in 1..Len(paths) :
               paths[k] \in existing /\ \A r \in 1..(k - 1) : paths[r] \notin existing]
  ELSE ""

\* Lines 69-86: the executable is looked for; without it the call returns
\* False at line 84.
ConvLocate(i) ==
  /\ pc[i] = "c_locate"
  /\ LET ffmpeg_path == FirstExisting(ffmpeg_paths, opt)
     IN  IF ffmpeg_path = ""
         THEN /\ locals' = [locals EXCEPT ![i] = ConvReturn(@, FALSE)]
              /\ pc' = [pc EXCEPT ![i] = "h_exists"]
         ELSE /\ locals' = [locals EXCEPT ![i].ffmpeg_path = ffmpeg_path]
              /\ pc' = [pc EXCEPT ![i] = "c_run"]
  /\ UNCHANGED <<event, sent, parsed, proc, puts, response, fs, now, opt>>

\* Line 99: subprocess.run starts the process, or fails to (OSError), which
\* line 122 catches.
ConvSpawn(i) ==
  /\ pc[i] = "c_run"
  /\ \E started \in BOOLEAN :
       IF started
       THEN /\ proc' = [proc EXCEPT ![i] = "running"]
            /\ pc' = [pc EXCEPT ![i] = "c_wait"]
            /\ UNCHANGED locals
       ELSE /\ locals' = [locals EXCEPT ![i] = ConvReturn(@, FALSE)]
            /\ pc' = [pc EXCEPT ![i] = "h_exists"]
            /\ UNCHANGED proc
  /\ UNCHANGED <<event, sent, parsed, puts, response, fs, now, opt>>

\* What the executable makes of its input: a WAV header and the samples.
Transcode(input) == <<"RIFF">> \o input

\* The external process writes (-y: overwrites) its output file.
FfmpegWrite(i) ==
  /\ pc[i] = "c_wait"
  /\ proc[i] = "running"
  /\ locals[i].temp_input_path \in DOMAIN fs
  /\ fs' = DictSet(fs, locals[i].wav_temp_path, Transcode(fs[locals[i].temp_input_path]))
  /\ proc' = [proc EXCEPT ![i] = "wrote"]
  /\ UNCHANGED <<pc, event, sent, parsed, locals, puts, response, now, opt>>

\* The external process exits within the deadline, with or without output,
\* and subprocess.run returns its exit code to line 99.
FfmpegExit(i) ==
  /\ pc[i] = "c_wait"
  /\ proc[i] \in {"running", "wrote"}
  /\ \E rc \in {0, 1} : locals' = [locals EXCEPT ![i].returncode = rc]
  /\ proc' = [proc EXCEPT ![i] = "exited"]
  /\ pc' = [pc EXCEPT ![i] = "c_unlink"]
  /\ UNCHANGED <<event, sent, parsed, puts, response, fs, now, opt>>

\* A wait that gives up at the deadline and leaves the process running.
ConvTimeoutMutant(i) ==
  /\ pc[i] = "c_wait"
  /\ proc[i] \in {"running", "wrote"}
  /\ locals' = [locals EXCEPT ![i] = ConvReturn(@, FALSE)]
  /\ pc' = [pc EXCEPT ![i] = "h_exists"]
  /\ UNCHANGED <<event, sent, parsed, proc, puts, response, fs, now, opt>>

\* The deadline of line 103 passes: subprocess.run kills the process and
\* raises TimeoutExpired, and lines 119-121 return False.
ConvTimeout(i) ==
  /\ pc[i] = "c_wait"
  /\ proc[i] \in {"running", "wrote"}
  /\ proc' = [proc EXCEPT ![i] = "killed"]
  /\ locals' = [locals EXCEPT ![i] = ConvReturn(@, FALSE)]
  /\ pc' = [pc EXCEPT ![i] = "h_exists"]
  /\ UNCHANGED <<event, sent, parsed, puts, response, fs, now, opt>>

\* Lines 107-117: the input file is removed and the exit code decides; an
\* unlink that raises is caught at line 122.
ConvUnlink(i) ==
  /\ pc[i] = "c_unlink"
  /\ IF locals[i].temp_input_path \in DOMAIN fs
     THEN /\ fs' = DictRemove(fs, locals[i].temp_input_path)
          /\ locals' = [locals EXCEPT ![i] = ConvReturn(@, locals[i].returncode = 0)]
     ELSE /\ locals' = [locals EXCEPT ![i] = ConvReturn(@, FALSE)]
          /\ UNCHANGED fs
  /\ pc' = [pc EXCEPT ![i] = "h_exists"]
  /\ UNCHANGED <<event, sent, parsed, proc, puts, response, now, opt>>

\* ------------------------------------------------- the handler, continued

\* Line 247.
HExists(i) ==
  /\ pc[i] = "h_exists"
  /\ pc' = [pc EXCEPT ![i] =
       IF locals[i].conversion_successful /\ locals[i].wav_temp_path \in DOMAIN fs
       THEN "h_read" ELSE "h_put_orig"]
  /\ UNCHANGED <<event, sent, parsed, locals, proc, puts, response, fs, now, opt>>

\* Lines 249-250: the output is read back; open raises when the file is gone.
HRead(i) ==
  /\ pc[i] = "h_read"
  /\ IF locals[i].wav_temp_path \in DOMAIN fs
     THEN /\ locals' = [locals EXCEPT ![i].wav_data = fs[locals[i].wav_temp_path]]
          /\ pc' = [pc EXCEPT ![i] = "h_put_wav"]
          /\ UNCHANGED response
     ELSE /\ response' = [response EXCEPT ![i] = InternalError("No such file or directory")]
          /\ pc' = [pc EXCEPT ![i] = "done"]
          /\ UNCHANGED locals
  /\ UNCHANGED <<event, sent, parsed, proc, puts, fs, now, opt>>

\* A transcoded file stored under the fallback prefix.
WavKeyMutant(base_name) == <<"audio/", "fallback/">> \o WavFilename(base_name)

\* Line 252.
WavKey(base_name) == <<"audio/">> \o WavFilename(base_name)

\* Lines 270-271.
OriginalFilename(base_name) == base_name \o <<".original">>
\* An original stored beside the transcoded files.
FallbackKeyMutant(base_name) == <<"audio/">> \o OriginalFilename(base_name)
FallbackKey(base_name) == <<"audio/", "fallback/">> \o OriginalFilename(base_name)

PutObject(key, body, content_type, ok) ==
  [Bucket |-> BUCKET, Key |-> key, Body |-> body, ContentType |-> content_type,
   ok |-> ok]

\* A handler that puts the original when the put of the transcoded file fails.
HPutWavMutant(i) ==
  /\ pc[i] = "h_put_wav"
  /\ \E ok \in BOOLEAN :
       /\ puts' = [puts EXCEPT ![i] =
            Append(@, PutObject(WavKey(locals[i].base_name), locals[i].wav_data,
                                "audio/wav", ok))]
       /\ locals' = [locals EXCEPT ![i].s3_key = WavKey(locals[i].base_name)]
       /\ pc' = [pc EXCEPT ![i] = IF ok THEN "h_unlink" ELSE "h_put_orig"]
       /\ UNCHANGED response
  /\ UNCHANGED <<event, sent, parsed, proc, fs, now, opt>>

\* Lines 252-258: the put of the transcoded file; it returns or raises.
HPutWav(i) ==
  /\ pc[i] = "h_put_wav"
  /\ \E ok \in BOOLEAN :
       /\ puts' = [puts EXCEPT ![i] =
            Append(@, PutObject(WavKey(locals[i].base_name), locals[i].wav_data,
                                "audio/wav", ok))]
       /\ locals' = [locals EXCEPT ![i].s3_key = WavKey(locals[i].base_name)]
       /\ IF ok
          THEN /\ pc' = [pc EXCEPT ![i] = "h_unlink"]
               /\ UNCHANGED response
          ELSE /\ response' = [response EXCEPT ![i] = InternalError("put_object failed")]
               /\ pc' = [pc EXCEPT ![i] = "done"]
  /\ UNCHANGED <<event, sent, parsed, proc, fs, now, opt>>

\* Lines 261-265: the output file is removed; unlink raises when it is gone.
HUnlinkWav(i) ==
  /\ pc[i] = "h_unlink"
  /\ IF locals[i].wav_temp_path \in DOMAIN fs
     THEN /\ fs' = DictRemove(fs, locals[i].wav_temp_path)
          /\ locals' = [locals EXCEPT
               ![i].final_filename = WavFilename(locals[i].base_name),
               ![i].final_size = Len(locals[i].wav_data),
               ![i].conversion_status = "converted to WAV 16kHz mono"]
          /\ pc' = [pc EXCEPT ![i] = "h_respond"]
          /\ UNCHANGED response
     ELSE /\ response' = [response EXCEPT ![i] = InternalError("No such file or directory")]
          /\ pc' = [pc EXCEPT ![i] = "done"]
          /\ UNCHANGED <<fs, locals>>
  /\ UNCHANGED <<event, sent, parsed, proc, puts, now, opt>>

\* Lines 269-282: the put of the original bytes; it returns or raises.
HPutOriginal(i) ==
  /\ pc[i] = "h_put_orig"
  /\ \E ok \in BOOLEAN :
       /\ puts' = [puts EXCEPT ![i] =
            Append(@, PutObject(FallbackKey(locals[i].base_name), locals[i].audio_data,
                                "audio/mp4", ok))]
       /\ IF ok
          THEN /\ locals' = [locals EXCEPT
                    ![i].s3_key = FallbackKey(locals[i].base_name),
                    ![i].final_filename = OriginalFilename(locals[i].base_name),
                    ![i].final_size = Len(locals[i].audio_data),
                    ![i].conversion_status = "conversion failed, saved original"]
               /\ pc' = [pc EXCEPT ![i] = "h_respond"]
               /\ UNCHANGED response
          ELSE /\ locals' = [locals EXCEPT ![i].s3_key = FallbackKey(locals[i].base_name)]
               /\ response' = [response EXCEPT ![i] = InternalError("put_object failed")]
               /\ pc' = [pc EXCEPT ![i] = "done"]
  /\ UNCHANGED <<event, sent, parsed, proc, fs, now, opt>>

\* Line 284.
S3Url(s3_key) == <<"s3://", BUCKET, "/">> \o s3_key

\* A size that is always the upload's.
SizeBytesMutant(l) == Len(l.audio_data)

\* Line 303.
SizeBytes(l) == l.final_size

\* Lines 284-306: the success response.
SuccessResponse(l) ==
  [statusCode |-> 200,
   status |-> "success",
   message |-> <<"File processed and saved successfully - ", l.conversion_status>>,
   s3_url |-> S3Url(l.s3_key),
   filename |-> l.final_filename,
   size_bytes |-> SizeBytes(l),
   conversion |-> IF l.conversion_successful THEN "success" ELSE "failed"]

HRespond(i) ==
  /\ pc[i] = "h_respond"
  /\ response' = [response EXCEPT ![i] = SuccessResponse(locals[i])]
  /\ pc' = [pc EXCEPT ![i] = "done"]
  /\ UNCHANGED <<event, sent, parsed, locals, proc, puts, fs, now, opt>>

\* ---------------------------------------------------------- specifications

Step(i) ==
  \/ HContentType(i)
  \/ HParse(i)
  \/ HValidate(i)
  \/ HName(i)
  \/ ConvCreateTemp(i)
  \/ ConvLocate(i)
  \/ ConvSpawn(i)
  \/ FfmpegWrite(i)
  \/ FfmpegExit(i)
  \/ ConvTimeout(i)
  \/ ConvUnlink(i)
  \/ HExists(i)
  \/ HRead(i)
  \/ HPutWav(i)
  \/ HUnlinkWav(i)
  \/ HPutOriginal(i)
  \/ HRespond(i)

\* One invocation in the execution environment.
Next ==
  \/ Invoke(1, Requests)
  \/ Step(1)
  \/ Tick

Spec == Init /\ [][Next]_vars

\* The handler runs to its end: every statement returns or raises, the wait
\* for the external process ends with its exit or with the deadline of line
\* 103, and put_object returns or raises.
NextLive ==
  \/ Invoke(1, LiveRequests)
  \/ Step(1)
  \/ Tick

\* The statements after the parse, each of which ends once it is reached.
Returns(i) ==
  \/ HContentType(i)
  \/ HValidate(i)
  \/ HName(i)
  \/ ConvCreateTemp(i)
  \/ ConvLocate(i)
  \/ ConvSpawn(i)
  \/ FfmpegWrite(i)
  \/ FfmpegExit(i)
  \/ ConvTimeout(i)
  \/ ConvUnlink(i)
  \/ HExists(i)
  \/ HRead(i)
  \/ HPutWav(i)
  \/ HUnlinkWav(i)
  \/ HPutOriginal(i)
  \/ HRespond(i)

\* parse_multipart is a loop over the finitely many parts of the body and
\* has no condition but its position, so HParse is enabled exactly at
\* h_parse and a step that moves pc from there is a HParse step.
ParseReturns(i) ==
  /\ pc[i] = "h_parse"
  /\ pc' = [pc EXCEPT ![i] = "h_validate"]

SpecLive ==
  Init /\ [][NextLive]_vars /\ WF_vars(Returns(1)) /\ WF_pc(ParseReturns(1))

\* NumInv invocations, interleaved, in one execution environment.
NextConc ==
  \/ \E i \in Invocations : Invoke(i, ConcRequests) \/ Step(i)
  \/ Tick

SpecConc == Init /\ [][NextConc]_vars

\* ------------------------------------------------------------ properties

StartsWith(s, prefix) == IsAt(s, prefix, 1)
EndsWith(s, suffix) == IsAt(s, suffix, Len(s) - Len(suffix) + 1)

\* convert_audio_to_wav has been called and has returned.
AfterConvert ==
  {"h_exists", "h_read", "h_put_wav", "h_unlink", "h_put_orig", "h_respond", "done"}
ConvertReturned(i) == pc[i] \in AfterConvert /\ locals[i].base_name # <<>>

\* C1: once convert_audio_to_wav has returned, whatever its outcome, the
\* temporary input file it created is no longer on the filesystem.
C1_TempInputRemoved ==
  \A i \in Invocations :
    (ConvertReturned(i) /\ locals[i].temp_input_path # <<>>)
      => locals[i].temp_input_path \notin DOMAIN fs

\* C2: when the transcode step reported failure, the object put to storage
\* has the decoded attachment's bytes as its body and a key that starts with
\* audio/fallback/ and ends with .original; and a request that ended after
\* such a failure made exactly that one put.
C2_FallbackPut ==
  \A i \in Invocations :
    (ConvertReturned(i) /\ ~locals[i].conversion_successful) =>
      /\ pc[i] \in {"h_respond", "done"} => Len(puts[i]) = 1
      /\ \A k \in 1..Len(puts[i]) :
           /\ puts[i][k].Body = parsed[i].files[<<FILE>>].content
           /\ StartsWith(puts[i][k].Key, <<"audio/", "fallback/">>)
           /\ EndsWith(puts[i][k].Key, <<".original">>)

\* C2's case: a transcode that timed out, and the original was put.
C2_Witness ==
  \E i \in Invocations :
    /\ pc[i] = "done"
    /\ proc[i] = "killed"
    /\ ~locals[i].conversion_successful
    /\ Len(puts[i]) = 1
    /\ puts[i][1].Body # <<>>

\* C3: when the transcode step reported success and its output file exists,
\* the object put to storage has the key audio/<baseName>.wav, which is not
\* under audio/fallback/, the content type audio/wav, and the bytes of the
\* output file as its body.
C3_NormalizedPut ==
  \A i \in Invocations :
    (/\ ConvertReturned(i)
     /\ locals[i].conversion_successful
     /\ locals[i].wav_temp_path \in DOMAIN fs
     /\ pc[i] \in {"h_unlink", "h_respond", "done"}) =>
      /\ Len(puts[i]) = 1
      /\ puts[i][1].Key = <<"audio/">> \o locals[i].base_name \o <<".wav">>
      /\ ~StartsWith(puts[i][1].Key, <<"audio/", "fallback/">>)
      /\ puts[i][1].ContentType = "audio/wav"
      /\ puts[i][1].Body = fs[locals[i].wav_temp_path]

\* C3's case: the transcoded file has been put and is still on the filesystem.
C3_Witness ==
  \E i \in Invocations :
    /\ pc[i] = "h_unlink"
    /\ locals[i].conversion_successful
    /\ locals[i].wav_temp_path \in DOMAIN fs
    /\ Len(puts[i]) = 1
    /\ puts[i][1].ok

\* The decoded request lacks a required field or the attachment.
C4_Missing(i) ==
  \/ \E n \in {"text", "dialect", "user_id"} :
       DictGet(parsed[i].form_data, <<n>>, <<>>) = <<>>
  \/ <<FILE>> \notin DOMAIN parsed[i].files

\* The client's well-formed request lacks a required field, carries it
\* empty, or lacks the attachment.
C4_SentMissing(i) ==
  /\ Valid(sent[i]) = sent[i]
  /\ \/ \E n \in {"text", "dialect", "user_id"} :
          \A k \in 1..Len(sent[i]) :
            ~(sent[i][k].kind = "field" /\ sent[i][k].name = <<n>>
                /\ sent[i][k].value # <<>>)
     \/ \A k \in 1..Len(sent[i]) :
          ~(sent[i][k].kind = "file" /\ sent[i][k].name = <<FILE>>)

\* C4: a request in which text, dialect or user_id is absent or empty, or
\* which has no attachment named file, ends in a 400 outcome, with no storage
\* put and no transcode step.
C4_BadRequest ==
  \A i \in Invocations :
    (/\ pc[i] \notin {"idle", "h_content_type", "h_parse", "h_validate"}
     /\ (C4_Missing(i) \/ C4_SentMissing(i))) =>
      /\ pc[i] = "done"
      /\ response[i].statusCode = 400
      /\ puts[i] = <<>>
      /\ proc[i] = "none"
      /\ locals[i].temp_input_path = <<>>

\* C4's case: every field but user_id is there, with the attachment, and the
\* request is over.
C4_Witness ==
  \E i \in Invocations :
    /\ pc[i] = "done"
    /\ <<"user_id">> \notin DOMAIN parsed[i].form_data
    /\ C4_SentMissing(i)
    /\ locals[i].text # <<>>
    /\ locals[i].dialect # <<>>
    /\ <<FILE>> \in DOMAIN parsed[i].files
    /\ response[i].statusCode = 400

Parsed(i) == pc[i] \notin {"idle", "h_content_type", "h_parse"}
FieldParts(parts) == SelectSeq(parts, LAMBDA p : p.kind = "field")
FileParts(parts) == SelectSeq(parts, LAMBDA p : p.kind = "file")

\* C5: a well-formed body with N distinctly named text fields and one file
\* part decodes to N fields and one file whose content is the payload, byte
\* for byte.
C5_DecodeRoundTrip ==
  \A i \in Invocations :
    (/\ Parsed(i)
     /\ event[i].content_type = CT_Multipart
     /\ Valid(sent[i]) = sent[i]
     /\ Len(FileParts(sent[i])) = 1) =>
      /\ Cardinality(DOMAIN parsed[i].form_data) = Len(FieldParts(sent[i]))
      /\ Cardinality(DOMAIN parsed[i].files) = 1
      /\ <<FILE>> \in DOMAIN parsed[i].files
      /\ parsed[i].files[<<FILE>>].content = FileParts(sent[i])[1].value

\* C6: a segment with no name attribute or no blank line after its headers
\* is dropped, and the body decodes as it would without that segment.
C6_MalformedDropped ==
  \A i \in Invocations :
    (/\ Parsed(i)
     /\ event[i].content_type = CT_Multipart
     /\ \E k \in 1..Len(sent[i]) : sent[i][k].kind \in {"noname", "nosep", "fnonly"}) =>
      parsed[i] = parse_multipart(EncodeBody(Valid(sent[i]), Boundary), Boundary)

\* The sanitized transliteration of invocation i.
C7_Translit(i) == SelectSeq(locals[i].transliteration, LAMBDA c : c \notin Reserved)

\* C7: the base name holds none of the reserved characters, and it ends with
\* --<transliteration> after the text preview exactly when the sanitized
\* transliteration is not empty; otherwise it ends with the text preview.
C7_BaseName ==
  \A i \in Invocations :
    locals[i].base_name # <<>> =>
      /\ \A k \in 1..Len(locals[i].base_name) : locals[i].base_name[k] \notin Reserved
      /\ C7_Translit(i) # <<>> =>
           EndsWith(locals[i].base_name,
                    <<DASH>> \o SafePreview(locals[i].text)
                      \o <<DASH, DASH>> \o C7_Translit(i))
      /\ C7_Translit(i) = <<>> =>
           EndsWith(locals[i].base_name, <<DASH>> \o SafePreview(locals[i].text))

\* C7's case: a transliteration of reserved characters only, and a text and
\* a dialect that hold some.
C7_Witness ==
  \E i \in Invocations :
    /\ locals[i].base_name # <<>>
    /\ locals[i].transliteration # <<>>
    /\ C7_Translit(i) = <<>>
    /\ \E k \in 1..Len(locals[i].text) : locals[i].text[k] \in Reserved
    /\ \E k \in 1..Len(locals[i].dialect) : locals[i].dialect[k] \in Reserved

\* C8: when the dialect is empty once its reserved characters are removed,
\* the dialect segment of the base name, after the timestamp, is "unknown".
C8_UnknownDialect ==
  \A i \in Invocations :
    (/\ locals[i].base_name # <<>>
     /\ SelectSeq(locals[i].dialect, LAMBDA c : c \notin Reserved) = <<>>) =>
      IsAt(locals[i].base_name, <<DASH, "unknown", DASH>>, Len(strftime(0)) + 1)

\* C9: in a 200 outcome the reported storage key is not empty and is the key
\* of the put, and size_bytes is the length of the body of that put.
C9_ReportedKeyAndSize ==
  \A i \in Invocations :
    response[i].statusCode = 200 =>
      /\ Len(puts[i]) = 1
      /\ puts[i][1].ok
      /\ puts[i][1].Key # <<>>
      /\ response[i].s3_url = <<"s3://", BUCKET, "/">> \o puts[i][1].Key
      /\ response[i].size_bytes = Len(puts[i][1].Body)

\* C9's case: a 200 outcome on the normalized path.
C9_Witness ==
  \E i \in Invocations :
    /\ response[i].statusCode = 200
    /\ response[i].conversion = "success"
    /\ puts[i][1].ContentType = "audio/wav"
    /\ response[i].size_bytes > Len(locals[i].audio_data)

InFlight(i) == pc[i] \notin {"idle", "done"}

\* Invocation i has created its temporary input file and has not removed it.
InputLive(i) ==
  /\ locals[i].temp_input_path # <<>>
  /\ ~(proc[i] = "exited" /\ pc[i] # "c_unlink")

\* C10: two invocations that run at the same time never hold temporary
\* input files of the same name, and their transcode processes never write
\* to the same output file name.
C10_DistinctTempFiles ==
  \A i, j \in Invocations :
    (i # j /\ InFlight(i) /\ InFlight(j)) =>
      /\ (InputLive(i) /\ InputLive(j))
           => locals[i].temp_input_path # locals[j].temp_input_path
      /\ (proc[i] = "wrote" /\ proc[j] = "wrote")
           => locals[i].wav_temp_path # locals[j].wav_temp_path

\* C11: once lambda_handler has returned, on any exit path, the transcode
\* output file /tmp/<baseName>.wav of that invocation is no longer on the
\* filesystem.
C11_WavTempRemoved ==
  \A i \in Invocations :
    (pc[i] = "done" /\ locals[i].wav_temp_path # <<>>)
      => locals[i].wav_temp_path \notin DOMAIN fs

\* convert_audio_to_wav has returned and the transcode did not exit with
\* code 0: no executable, a spawn error, a nonzero exit or a timeout.
TranscodeFailed(i) ==
  /\ ConvertReturned(i)
  /\ ~(proc[i] = "exited" /\ locals[i].returncode = 0)

\* C12: a failed transcode makes convert_audio_to_wav return False and never
\* an error outcome of its own: the request ends with one put of the
\* original, in a 200 outcome that says the original was saved when that put
\* succeeded, and in a 500 outcome only when that put failed.
C12_FailureAbsorbed ==
  \A i \in Invocations :
    TranscodeFailed(i) =>
      /\ ~locals[i].conversion_successful
      /\ pc[i] = "done" =>
           /\ Len(puts[i]) = 1
           /\ puts[i][1].ok =>
                /\ response[i].statusCode = 200
                /\ response[i].status = "success"
                /\ response[i].message[2] = "conversion failed, saved original"
           /\ ~puts[i][1].ok => response[i].statusCode = 500

\* C12's case: the executable was found, starting it failed, and the request
\* ended in a 200 outcome.
C12_Witness ==
  \E i \in Invocations :
    /\ pc[i] = "done"
    /\ locals[i].ffmpeg_path # ""
    /\ proc[i] = "none"
    /\ response[i].statusCode = 200

\* C13: when the storage put fails, on either path, the request ends in a
\* 500 outcome whose message holds the cause, no storage key, file name or
\* size is returned, and that put is the only one.
C13_PutFailure ==
  \A i \in Invocations :
    (\E k \in 1..Len(puts[i]) : ~puts[i][k].ok) =>
      /\ Len(puts[i]) = 1
      /\ pc[i] = "done"
      /\ response[i].statusCode = 500
      /\ response[i].status = "error"
      /\ \E k \in 1..Len(response[i].message) :
           response[i].message[k] = "put_object failed"
      /\ response[i].s3_url = <<>>
      /\ response[i].filename = <<>>
      /\ response[i].size_bytes = 0

\* C13's case: the put of the transcoded file failed.
C13_Witness ==
  \E i \in Invocations :
    /\ pc[i] = "done"
    /\ Len(puts[i]) = 1
    /\ ~puts[i][1].ok
    /\ puts[i][1].ContentType = "audio/wav"
    /\ response[i].statusCode = 500

\* The step of the pipeline an invocation is at: p is its pc, code the
\* status code of its response.
Phase(p, code) ==
  CASE p = "idle" -> "None"
    [] p \in {"h_content_type", "h_parse"} -> "Received"
    [] p = "h_validate" -> "Decoded"
    [] p \in {"h_name", "c_tmp", "c_locate", "c_run", "c_wait", "c_unlink",
              "h_exists", "h_read"} -> "Validated"
    [] p = "h_put_wav" -> "Normalized"
    [] p = "h_put_orig" -> "FallenBack"
    [] p \in {"h_unlink", "h_respond"} -> "Persisted"
    [] p = "done" -> IF code = 200 THEN "Completed" ELSE "Errored"

PhaseOrder ==
  {<<"None", "Received">>, <<"Received", "Decoded">>, <<"Decoded", "Validated">>,
   <<"Validated", "Normalized">>, <<"Validated", "FallenBack">>,
   <<"Normalized", "Persisted">>, <<"FallenBack", "Persisted">>,
   <<"Persisted", "Completed">>}
    \cup {<<ph, "Errored">> :
            ph \in {"Received", "Decoded", "Validated", "Normalized", "FallenBack",
                    "Persisted"}}

\* What holds of every state: at most one put, and an outcome exactly when
\* the invocation is over.
C14_State(i) ==
  /\ Len(puts[i]) <= 1
  /\ pc[i] = "done" <=> response[i].statusCode \in {200, 400, 500}
  /\ pc[i] # "done" => response[i] = NoResponse

\* What holds of every step: the phases follow the order, the external
\* process and the temporary input file are created at most once, a put is
\* made only once validation has passed and the transcode step has returned.
C14_Step(i) ==
  /\ \/ Phase(pc'[i], response'[i].statusCode) = Phase(pc[i], response[i].statusCode)
     \/ <<Phase(pc[i], response[i].statusCode),
          Phase(pc'[i], response'[i].statusCode)>> \in PhaseOrder
  /\ (proc'[i] = "running" /\ proc[i] # "running") => proc[i] = "none"
  /\ proc[i] # "none" => proc'[i] # "none"
  /\ locals[i].temp_input_path # <<>>
       => locals'[i].temp_input_path = locals[i].temp_input_path
  /\ puts'[i] # puts[i] =>
       /\ puts[i] = <<>>
       /\ ConvertReturned(i)
       /\ locals[i].text # <<>> /\ locals[i].dialect # <<>> /\ locals[i].user_id # <<>>
       /\ <<FILE>> \in DOMAIN parsed[i].files
       /\ proc[i] \notin {"running", "wrote"}

\* C14: every invocation goes through Received, Decoded, Validated, then
\* Normalized or FallenBack, then Persisted, then Completed, or ends in
\* Errored; it makes at most one transcode attempt and at most one put, the
\* put after validation and after the transcode step has returned; and it
\* ends, in one of the 200, 400 and 500 outcomes.
C14_Lifecycle ==
  /\ [](\A i \in Invocations : C14_State(i))
  /\ [][\A i \in Invocations : C14_Step(i)]_vars
  /\ \A i \in Invocations : (pc[i] # "idle") ~> (pc[i] = "done")

\* C14's case: a request that went through a transcode with a nonzero exit
\* and one put, and is over.
C14_Witness ==
  \E i \in Invocations :
    /\ pc[i] = "done"
    /\ response[i].statusCode = 200
    /\ proc[i] = "exited"
    /\ locals[i].returncode = 1
    /\ Len(puts[i]) = 1

\* C15: when the external process does not exit within the 30-second
\* deadline, convert_audio_to_wav still returns, it returns False, and when it
\* has returned the process is terminated: no process of the invocation is
\* running after the return, and the terminated process writes nothing more.
C15_TimeoutKills ==
  /\ [](\A i \in Invocations :
          /\ proc[i] = "killed"
               => ConvertReturned(i) /\ ~locals[i].conversion_successful
          /\ ConvertReturned(i) => proc[i] \notin {"running", "wrote"})
  /\ [][\A i \in Invocations : proc[i] = "killed" => UNCHANGED <<fs, proc>>]_vars
  /\ \A i \in Invocations : (pc[i] = "c_wait") ~> ConvertReturned(i)

\* C15's case: the deadline passed on a process that had already written
\* output, and the request is over.
C15_Witness ==
  \E i \in Invocations :
    /\ pc[i] = "done"
    /\ proc[i] = "killed"
    /\ locals[i].wav_temp_path \in DOMAIN fs
    /\ response[i].statusCode = 200

\* The request has gone past the validation of lines 183-216.
PastValidation(i) == pc[i] = "h_name" \/ locals[i].base_name # <<>>

\* C16: a request goes past validation only if its body carries exactly one
\* attachment under the field name file; a body with two or more attachments
\* named file ends with status 400 and without a put.  Stated for the bodies
\* whose parts are all well formed.
C16_ExactlyOneFile ==
  \A i \in Invocations :
    Valid(sent[i]) = sent[i] =>
      /\ PastValidation(i) => Len(FileParts(sent[i])) = 1
      /\ (Len(FileParts(sent[i])) >= 2 /\ pc[i] = "done")
           => response[i].statusCode = 400 /\ puts[i] = <<>>

\* C17: in every 200 outcome the three indicators agree: conversion is
\* "success" exactly when the stored key is audio/<base_name>.wav and the
\* message says "converted to WAV 16kHz mono", and "failed" exactly when the
\* stored key is under audio/fallback/ and the message says "conversion
\* failed, saved original"; also when the transcode reported success and its
\* output file is absent.
C17_IndicatorsAgree ==
  \A i \in Invocations :
    (response[i].statusCode = 200 /\ Len(puts[i]) = 1) =>
      /\ response[i].conversion = "success"
           <=> /\ puts[i][1].Key = WavKey(locals[i].base_name)
               /\ response[i].message[2] = "converted to WAV 16kHz mono"
      /\ response[i].conversion = "failed"
           <=> /\ puts[i][1].Key = FallbackKey(locals[i].base_name)
               /\ response[i].message[2] = "conversion failed, saved original"

====
